---- MODULE Spec2Model ----
(***************************************************************************)
(* The one-shot and multi-shot channels of src/src/main.rs (Parts 4, 5),    *)
(* and the tests of Parts 1 and 2 (test_spawn, test_send_recv), each under *)
(* a specification of its own.                                             *)
(*                                                                         *)
(* What the file contains, and what is modelled:                           *)
(*   - Repr<T> is a Mutex<Option<T>> and nothing else (no Condvar);        *)
(*   - Recv::recv is written out: a loop of lock / take / match that       *)
(*     returns on Some(msg) and drops the guard and loops on None;         *)
(*   - new_chan, Send::send, new_multi_chan, MultiRecv::recv and           *)
(*     MultiSend::send have the body unimplemented!(): a call panics;      *)
(*   - test_SR and test_multi_chan call new_chan / new_multi_chan first.   *)
(*                                                                         *)
(* new_chan, the only constructor of the file, panics, so the cells the    *)
(* operations act on are their inputs: a Repr built by its struct literal, *)
(* whose Mutex holds any Option<T>.  Each operation is called by a client  *)
(* thread of its own on such a capability.                                 *)
(***************************************************************************)
EXTENDS Naturals, Sequences, FiniteSets

\* Bounds of the model.
NumChans == 1
MaxVal == 2

\* for i in 0..10 of test_multi_chan.
NumItems == 10

\* test_spawn: for j in 0..10, and in each thread for i in 1..10.
NumThreads == 10
SpawnLo == 1
SpawnHi == 10

\* test_send_recv: vec![1,2,3], v.push(5), for i in 4..10 in the child and
\* for i in 14..20 in the main thread.
FirstPush == 5
ChildLo == 4
ChildHi == 10
MainLo == 14
MainHi == 20

Chans == 1..NumChans
Values == 1..MaxVal

\* Option<T>: None is the empty sequence, Some(v) the sequence of v alone.
None == << >>
Some(v) == << v >>
Option == {None} \cup {Some(v) : v \in Values}

\* The end of a thread whose call hit unimplemented!().
Panicked == "panicked"

VARIABLES
  slot,       \* slot[c]: the Option<T> inside Repr.val of cell c
  mutex,      \* mutex[c]: "free", or the holder of cell c's MutexGuard
  deposited,  \* deposited[c]: the Option<T> cell c was built with
  rpc,        \* rpc[c]: where the client of Recv::recv on c stands
  y,          \* y[c]: the local y of Recv::recv (result of x.take())
  ret,        \* ret[c]: what Recv::recv returned, None before it returns
  emptySeen,  \* emptySeen[c]: recv matched None at least once
  spc,        \* spc[c]: where the client of Send::send on c stands
  sarg,       \* sarg[c]: the msg passed to Send::send, None before the call
  srMain,     \* main thread of test_SR
  mcMain,     \* main thread of test_multi_chan
  ppc,        \* client of MultiSend::send
  parg,       \* the msg passed to MultiSend::send, None before the call
  cpc,        \* client looping on MultiRecv::recv
  collected,  \* the messages that client has received, in order
  spMain,     \* test_spawn: where the main thread stands
  spJ,        \* test_spawn: the loop variable j
  thr,        \* test_spawn: thr[j], the state of the thread spawned for j
  thrI,       \* test_spawn: thrI[j], the loop variable i of that thread
  out,        \* test_spawn: the lines printed, in order, each << i, j >>
  q,          \* test_send_recv: the messages in flight from tx to rx
  q1,         \* test_send_recv: the messages in flight from tx1 to rx1
  mpc,        \* test_send_recv: where the main thread stands
  mi,         \* test_send_recv: the main thread's loop variable i
  w,          \* test_send_recv: the main thread's vector w
  finalMsg,   \* test_send_recv: the main thread's msg, << >> while unbound
  kpc,        \* test_send_recv: where the child thread stands
  ki,         \* test_send_recv: the child's loop variable i
  kv,         \* test_send_recv: the child's vector (v, then u)
  sends,      \* test_send_recv: sends done, by "main" and by "child"
  recvs       \* test_send_recv: receives done, by "main" and by "child"

vars == << slot, mutex, deposited, rpc, y, ret, emptySeen, spc, sarg,
           srMain, mcMain, ppc, parg, cpc, collected,
           spMain, spJ, thr, thrI, out,
           q, q1, mpc, mi, w, finalMsg, kpc, ki, kv, sends, recvs >>

chanVars == << slot, mutex, deposited, rpc, y, ret, emptySeen >>
sendVars == << spc, sarg >>
testVars == << srMain, mcMain >>
multiVars == << ppc, parg, cpc, collected >>
spawnVars == << spMain, spJ, thr, thrI, out >>
\* The state of the tests of Parts 1 and 2, which no channel operation of
\* Parts 4 and 5 touches.
pingVars == << q, q1, mpc, mi, w, finalMsg, kpc, ki, kv, sends, recvs >>
partVars == << spawnVars, pingVars >>

Threads == 0..(NumThreads - 1)

TypeOK ==
  /\ slot \in [Chans -> Option]
  /\ mutex \in [Chans -> {"free", "recv"}]
  /\ deposited \in [Chans -> Option]
  /\ rpc \in [Chans -> {"lock", "take", "match", "returned"}]
  /\ y \in [Chans -> Option]
  /\ ret \in [Chans -> Option]
  /\ emptySeen \in [Chans -> BOOLEAN]
  /\ spc \in [Chans -> {"call", Panicked}]
  /\ sarg \in [Chans -> Option]
  /\ srMain \in {"start", Panicked}
  /\ mcMain \in {"start", Panicked}
  /\ collected \in Seq(Nat)
  /\ ppc \in {"call", Panicked}
  /\ parg \in Option
  /\ cpc \in {"call", Panicked}
  /\ spMain \in {"spawn", "join", "done"}
  /\ spJ \in 0..NumThreads
  /\ thr \in [Threads -> {"unborn", "println", "sleep", "finished"}]
  /\ thrI \in [Threads -> SpawnLo..SpawnHi]
  /\ out \in Seq((SpawnLo..SpawnHi) \X Threads)
  /\ q \in Seq(Seq(Nat))
  /\ q1 \in Seq(Seq(Nat))
  /\ mpc \in {"spawn", "for", "recv", "push", "send", "final", "println", "done", Panicked}
  /\ mi \in MainLo..MainHi
  /\ w \in Seq(Nat)
  /\ finalMsg \in Seq(Nat)
  /\ kpc \in {"unborn", "vec", "push5", "send0", "for", "recv", "push", "send", "done", Panicked}
  /\ ki \in ChildLo..ChildHi
  /\ kv \in Seq(Nat)
  /\ sends \in [{"main", "child"} -> Nat]
  /\ recvs \in [{"main", "child"} -> Nat]

\* test_send_recv at its entry.
PingInit ==
  /\ q = << >>
  /\ q1 = << >>
  /\ mpc = "spawn"
  /\ mi = MainLo
  /\ w = << >>
  /\ finalMsg = << >>
  /\ kpc = "unborn"
  /\ ki = ChildLo
  /\ kv = << >>
  /\ sends = [t \in {"main", "child"} |-> 0]
  /\ recvs = [t \in {"main", "child"} |-> 0]

\* test_spawn before its loop: no thread spawned, nothing printed.
SpawnInit ==
  /\ spMain = "spawn"
  /\ spJ = 0
  /\ thr = [j \in Threads |-> "unborn"]
  /\ thrI = [j \in Threads |-> SpawnLo]
  /\ out = << >>

\* struct Repr / Send / Recv: every cell is a Mutex<Option<T>>, unlocked,
\* with one Send and one Recv client that have not called yet.
Init ==
  /\ deposited \in [Chans -> Option]
  /\ slot = deposited
  /\ mutex = [c \in Chans |-> "free"]
  /\ rpc = [c \in Chans |-> "lock"]
  /\ y = [c \in Chans |-> None]
  /\ ret = [c \in Chans |-> None]
  /\ emptySeen = [c \in Chans |-> FALSE]
  /\ spc = [c \in Chans |-> "call"]
  /\ sarg = [c \in Chans |-> None]
  /\ srMain = "start"
  /\ mcMain = "start"
  /\ ppc = "call"
  /\ parg = None
  /\ cpc = "call"
  /\ collected = << >>
  /\ SpawnInit
  /\ PingInit

----------------------------------------------------------------------------
\* Part 4: the one-shot channel.

\* fn new_chan<T>() -> (Send<T>, Recv<T>) { unimplemented!() }
new_chan == Panicked

\* let mut x = self.repr.val.lock().unwrap();
Recv_recv_lock(c) ==
  /\ rpc[c] = "lock"
  /\ mutex[c] = "free"
  /\ mutex' = [mutex EXCEPT ![c] = "recv"]
  /\ rpc' = [rpc EXCEPT ![c] = "take"]
  /\ UNCHANGED << slot, deposited, y, ret, emptySeen >>
  /\ UNCHANGED << sendVars, testVars, multiVars, partVars >>

\* Recv_recv_take with the value read but left in the slot (a clone of the
\* Option instead of take()).
Recv_recv_take_leaves_slot(c) ==
  /\ rpc[c] = "take"
  /\ mutex[c] = "recv"
  /\ y' = [y EXCEPT ![c] = slot[c]]
  /\ rpc' = [rpc EXCEPT ![c] = "match"]
  /\ UNCHANGED << slot, mutex, deposited, ret, emptySeen >>
  /\ UNCHANGED << sendVars, testVars, multiVars, partVars >>

\* let y = x.take();  the slot is left None
Recv_recv_take(c) ==
  /\ rpc[c] = "take"
  /\ mutex[c] = "recv"
  /\ y' = [y EXCEPT ![c] = slot[c]]
  /\ slot' = [slot EXCEPT ![c] = None]
  /\ rpc' = [rpc EXCEPT ![c] = "match"]
  /\ UNCHANGED << mutex, deposited, ret, emptySeen >>
  /\ UNCHANGED << sendVars, testVars, multiVars, partVars >>

\* Recv_recv_match with the arms of the match confused: the None arm returns
\* too, instead of dropping the guard and looping.
Recv_recv_match_returns_on_none(c) ==
  /\ rpc[c] = "match"
  /\ mutex' = [mutex EXCEPT ![c] = "free"]
  /\ ret' = [ret EXCEPT ![c] = y[c]]
  /\ rpc' = [rpc EXCEPT ![c] = "returned"]
  /\ UNCHANGED << slot, deposited, y, emptySeen >>
  /\ UNCHANGED << sendVars, testVars, multiVars, partVars >>

\* Recv_recv_match without the drop(x) of the None arm: the guard is still
\* held when the loop goes back to the lock.
Recv_recv_match_keeps_guard(c) ==
  /\ rpc[c] = "match"
  /\ IF y[c] # None
       THEN /\ ret' = [ret EXCEPT ![c] = y[c]]
            /\ rpc' = [rpc EXCEPT ![c] = "returned"]
            /\ mutex' = [mutex EXCEPT ![c] = "free"]
            /\ UNCHANGED emptySeen
       ELSE /\ rpc' = [rpc EXCEPT ![c] = "lock"]
            /\ emptySeen' = [emptySeen EXCEPT ![c] = TRUE]
            /\ UNCHANGED << ret, mutex >>
  /\ UNCHANGED << slot, deposited, y >>
  /\ UNCHANGED << sendVars, testVars, multiVars, partVars >>

\* match y { Some(msg) => return msg, None => { drop(x) } }  and the loop:
\* either arm releases the guard; the None arm goes back to the lock.
Recv_recv_match(c) ==
  /\ rpc[c] = "match"
  /\ mutex' = [mutex EXCEPT ![c] = "free"]
  /\ IF y[c] # None
       THEN /\ ret' = [ret EXCEPT ![c] = y[c]]
            /\ rpc' = [rpc EXCEPT ![c] = "returned"]
            /\ UNCHANGED emptySeen
       ELSE /\ rpc' = [rpc EXCEPT ![c] = "lock"]
            /\ emptySeen' = [emptySeen EXCEPT ![c] = TRUE]
            /\ UNCHANGED ret
  /\ UNCHANGED << slot, deposited, y >>
  /\ UNCHANGED << sendVars, testVars, multiVars, partVars >>

Recv_recv(c) ==
  \/ Recv_recv_lock(c)
  \/ Recv_recv_take(c)
  \/ Recv_recv_match(c)

\* fn send(self, msg: T) -> () { unimplemented!() }: the call panics; it
\* takes no lock and writes nothing.
Send_send(c, msg) ==
  /\ spc[c] = "call"
  /\ spc' = [spc EXCEPT ![c] = Panicked]
  /\ sarg' = [sarg EXCEPT ![c] = Some(msg)]
  /\ UNCHANGED << chanVars, testVars, multiVars, partVars >>

\* test_SR: let (s,r) = new_chan(); panics, so the thread is never spawned
\* and recv is never called.
test_SR ==
  /\ srMain = "start"
  /\ srMain' = new_chan
  /\ UNCHANGED mcMain
  /\ UNCHANGED << chanVars, sendVars, multiVars, partVars >>

----------------------------------------------------------------------------
\* Part 5: the multi-shot channel.

\* fn new_multi_chan<T>() -> (MultiSend<T>,MultiRecv<T>) { unimplemented!() }
new_multi_chan == Panicked

\* fn recv(self) -> (T,MultiRecv<T>) { unimplemented!() }: the first call of
\* a receive loop panics, so the loop receives nothing.
MultiRecv_recv ==
  /\ cpc = "call"
  /\ cpc' = Panicked
  /\ UNCHANGED << ppc, parg, collected >>
  /\ UNCHANGED << chanVars, sendVars, testVars, partVars >>

\* fn send(self, msg: T) -> MultiSend<T> { unimplemented!() }
MultiSend_send(msg) ==
  /\ ppc = "call"
  /\ ppc' = Panicked
  /\ parg' = Some(msg)
  /\ UNCHANGED << cpc, collected >>
  /\ UNCHANGED << chanVars, sendVars, testVars, partVars >>

\* test_multi_chan: let (mut s,mut r) = new_multi_chan(); panics before the
\* producer is spawned and before the loop is entered.
test_multi_chan ==
  /\ mcMain = "start"
  /\ mcMain' = new_multi_chan
  /\ UNCHANGED srMain
  /\ UNCHANGED << chanVars, sendVars, multiVars, partVars >>

----------------------------------------------------------------------------
Next ==
  \/ \E c \in Chans : Recv_recv_lock(c)
  \/ \E c \in Chans : Recv_recv_take(c)
  \/ \E c \in Chans : Recv_recv_match(c)
  \/ \E c \in Chans : \E msg \in Values : Send_send(c, msg)
  \/ test_SR
  \/ \E msg \in Values : MultiSend_send(msg)
  \/ MultiRecv_recv
  \/ test_multi_chan

Spec == Init /\ [][Next]_vars

\* A fair scheduler: every thread that can take a step eventually takes one.
FairSpec ==
  /\ Spec
  /\ \A c \in Chans : WF_vars(Recv_recv(c))
  /\ \A c \in Chans : WF_vars(\E msg \in Values : Send_send(c, msg))
  /\ WF_vars(test_SR)
  /\ WF_vars(\E msg \in Values : MultiSend_send(msg))
  /\ WF_vars(MultiRecv_recv)
  /\ WF_vars(test_multi_chan)

\* A scheduler that only guarantees that some enabled thread runs.
UnfairSpec == Spec /\ WF_vars(Next)

----------------------------------------------------------------------------
\* Part 1: test_spawn.

\* The channel state, which test_spawn and test_send_recv leave alone.
channelPart == << chanVars, sendVars, testVars, multiVars >>

\* let handle = thread::spawn(move || { for i in 1..10 { ... } });
spawn_thread ==
  /\ spMain = "spawn"
  /\ thr' = [thr EXCEPT ![spJ] = IF SpawnLo < SpawnHi THEN "println" ELSE "finished"]
  /\ spMain' = "join"
  /\ UNCHANGED << spJ, thrI, out >>
  /\ UNCHANGED << channelPart, pingVars >>

\* println!("Hi {} from thread {}", i, j);
thread_println(j) ==
  /\ thr[j] = "println"
  /\ out' = Append(out, << thrI[j], j >>)
  /\ thr' = [thr EXCEPT ![j] = "sleep"]
  /\ UNCHANGED << spMain, spJ, thrI >>
  /\ UNCHANGED << channelPart, pingVars >>

\* thread::sleep(Duration::from_millis(100)); and the next turn of
\* for i in 1..10: the closure ends when the range is exhausted.
thread_sleep(j) ==
  /\ thr[j] = "sleep"
  /\ IF thrI[j] + 1 < SpawnHi
       THEN /\ thrI' = [thrI EXCEPT ![j] = thrI[j] + 1]
            /\ thr' = [thr EXCEPT ![j] = "println"]
       ELSE /\ thr' = [thr EXCEPT ![j] = "finished"]
            /\ UNCHANGED thrI
  /\ UNCHANGED << spMain, spJ, out >>
  /\ UNCHANGED << channelPart, pingVars >>

\* handle_join without the wait: main goes on whether or not the thread has
\* finished (the handle is dropped instead of joined).
handle_join_no_wait ==
  /\ spMain = "join"
  /\ spJ' = spJ + 1
  /\ spMain' = IF spJ + 1 < NumThreads THEN "spawn" ELSE "done"
  /\ UNCHANGED << thr, thrI, out >>
  /\ UNCHANGED << channelPart, pingVars >>

\* handle.join().unwrap(); blocks until the thread has finished; then the
\* next turn of for j in 0..10, after which test_spawn returns.
handle_join ==
  /\ spMain = "join"
  /\ thr[spJ] = "finished"
  /\ spJ' = spJ + 1
  /\ spMain' = IF spJ + 1 < NumThreads THEN "spawn" ELSE "done"
  /\ UNCHANGED << thr, thrI, out >>
  /\ UNCHANGED << channelPart, pingVars >>

test_spawn ==
  \/ spawn_thread
  \/ handle_join
  \/ \E j \in Threads : thread_println(j)
  \/ \E j \in Threads : thread_sleep(j)

\* The tests of Parts 1 and 2 start with the channels untouched.
InitTests == Init /\ deposited = [c \in Chans |-> None]

SpecSpawn == InitTests /\ [][test_spawn]_vars

----------------------------------------------------------------------------
\* Part 2: test_send_recv.  An mpsc channel is an unbounded queue; send
\* fails when the receiving end has been dropped, recv blocks while the
\* queue is empty and the sending end lives, and fails when the queue is
\* empty and the sending end has been dropped.  Each thread drops its ends
\* when it ends; unwrap() turns a failure into a panic.

\* rx and tx1 live until the main thread ends.
MainEndsAlive == mpc \notin {"done", Panicked}
\* tx and rx1 are moved into the closure and live until the child ends.
ChildEndsAlive == kpc \notin {"done", Panicked}

pingRest == << channelPart, spawnVars >>

\* let (tx, rx) = mpsc::channel(); let (tx1, rx1) = mpsc::channel();
\* thread::spawn(move || { ... });
main_spawn ==
  /\ mpc = "spawn"
  /\ kpc' = "vec"
  /\ mpc' = "for"
  /\ UNCHANGED << q, q1, mi, w, finalMsg, ki, kv, sends, recvs >>
  /\ UNCHANGED pingRest

\* for i in 14..20: the next turn of the loop, or its end
main_for ==
  /\ mpc = "for"
  /\ mpc' = IF mi < MainHi THEN "recv" ELSE "final"
  /\ UNCHANGED << q, q1, mi, w, finalMsg, kpc, ki, kv, sends, recvs >>
  /\ UNCHANGED pingRest

\* let mut w = rx.recv().unwrap();
main_recv ==
  /\ mpc = "recv"
  /\ q # << >> \/ ~ChildEndsAlive
  /\ IF q # << >>
       THEN /\ w' = Head(q)
            /\ q' = Tail(q)
            /\ recvs' = [recvs EXCEPT !["main"] = @ + 1]
            /\ mpc' = "push"
       ELSE /\ mpc' = Panicked
            /\ UNCHANGED << w, q, recvs >>
  /\ UNCHANGED << q1, mi, finalMsg, kpc, ki, kv, sends >>
  /\ UNCHANGED pingRest

\* main_push with the push forgotten: w is sent back as received.
main_push_nothing ==
  /\ mpc = "push"
  /\ mpc' = "send"
  /\ UNCHANGED << w, q, q1, mi, finalMsg, kpc, ki, kv, sends, recvs >>
  /\ UNCHANGED pingRest

\* w.push(i);
main_push ==
  /\ mpc = "push"
  /\ w' = Append(w, mi)
  /\ mpc' = "send"
  /\ UNCHANGED << q, q1, mi, finalMsg, kpc, ki, kv, sends, recvs >>
  /\ UNCHANGED pingRest

\* tx1.send(w).unwrap();  and i moves on
main_send ==
  /\ mpc = "send"
  /\ IF ChildEndsAlive
       THEN /\ q1' = Append(q1, w)
            /\ sends' = [sends EXCEPT !["main"] = @ + 1]
            /\ mi' = mi + 1
            /\ mpc' = "for"
       ELSE /\ mpc' = Panicked
            /\ UNCHANGED << q1, sends, mi >>
  /\ UNCHANGED << q, w, finalMsg, kpc, ki, kv, recvs >>
  /\ UNCHANGED pingRest

\* let msg = rx.recv().unwrap();
main_final ==
  /\ mpc = "final"
  /\ q # << >> \/ ~ChildEndsAlive
  /\ IF q # << >>
       THEN /\ finalMsg' = Head(q)
            /\ q' = Tail(q)
            /\ recvs' = [recvs EXCEPT !["main"] = @ + 1]
            /\ mpc' = "println"
       ELSE /\ mpc' = Panicked
            /\ UNCHANGED << finalMsg, q, recvs >>
  /\ UNCHANGED << q1, mi, w, kpc, ki, kv, sends >>
  /\ UNCHANGED pingRest

\* println!("Got: {:?}", &msg); and test_send_recv returns
main_println ==
  /\ mpc = "println"
  /\ mpc' = "done"
  /\ UNCHANGED << q, q1, mi, w, finalMsg, kpc, ki, kv, sends, recvs >>
  /\ UNCHANGED pingRest

\* let mut v = vec![1,2,3];
child_vec ==
  /\ kpc = "vec"
  /\ kv' = << 1, 2, 3 >>
  /\ kpc' = "push5"
  /\ UNCHANGED << q, q1, mpc, mi, w, finalMsg, ki, sends, recvs >>
  /\ UNCHANGED pingRest

\* v.push(5);
child_push5 ==
  /\ kpc = "push5"
  /\ kv' = Append(kv, FirstPush)
  /\ kpc' = "send0"
  /\ UNCHANGED << q, q1, mpc, mi, w, finalMsg, ki, sends, recvs >>
  /\ UNCHANGED pingRest

\* tx.send(v).unwrap();
child_send0 ==
  /\ kpc = "send0"
  /\ IF MainEndsAlive
       THEN /\ q' = Append(q, kv)
            /\ sends' = [sends EXCEPT !["child"] = @ + 1]
            /\ kpc' = "for"
       ELSE /\ kpc' = Panicked
            /\ UNCHANGED << q, sends >>
  /\ UNCHANGED << q1, mpc, mi, w, finalMsg, ki, kv, recvs >>
  /\ UNCHANGED pingRest

\* for i in 4..10: the next turn of the loop, or the end of the closure
child_for ==
  /\ kpc = "for"
  /\ kpc' = IF ki < ChildHi THEN "recv" ELSE "done"
  /\ UNCHANGED << q, q1, mpc, mi, w, finalMsg, ki, kv, sends, recvs >>
  /\ UNCHANGED pingRest

\* let mut u: Vec<i32> = rx1.recv().unwrap();
child_recv ==
  /\ kpc = "recv"
  /\ q1 # << >> \/ ~MainEndsAlive
  /\ IF q1 # << >>
       THEN /\ kv' = Head(q1)
            /\ q1' = Tail(q1)
            /\ recvs' = [recvs EXCEPT !["child"] = @ + 1]
            /\ kpc' = "push"
       ELSE /\ kpc' = Panicked
            /\ UNCHANGED << kv, q1, recvs >>
  /\ UNCHANGED << q, mpc, mi, w, finalMsg, ki, sends >>
  /\ UNCHANGED pingRest

\* u.push(i);
child_push ==
  /\ kpc = "push"
  /\ kv' = Append(kv, ki)
  /\ kpc' = "send"
  /\ UNCHANGED << q, q1, mpc, mi, w, finalMsg, ki, sends, recvs >>
  /\ UNCHANGED pingRest

\* tx.send(u).unwrap();  and i moves on
child_send ==
  /\ kpc = "send"
  /\ IF MainEndsAlive
       THEN /\ q' = Append(q, kv)
            /\ sends' = [sends EXCEPT !["child"] = @ + 1]
            /\ ki' = ki + 1
            /\ kpc' = "for"
       ELSE /\ kpc' = Panicked
            /\ UNCHANGED << q, sends, ki >>
  /\ UNCHANGED << q1, mpc, mi, w, finalMsg, kv, recvs >>
  /\ UNCHANGED pingRest

main_thread ==
  \/ main_spawn
  \/ main_for
  \/ main_recv
  \/ main_push
  \/ main_send
  \/ main_final
  \/ main_println

child_thread ==
  \/ child_vec
  \/ child_push5
  \/ child_send0
  \/ child_for
  \/ child_recv
  \/ child_push
  \/ child_send

test_send_recv == main_thread \/ child_thread

\* Both threads are scheduled fairly.
SpecPingPong ==
  /\ InitTests
  /\ [][test_send_recv]_vars
  /\ WF_vars(main_thread)
  /\ WF_vars(child_thread)

----------------------------------------------------------------------------
\* The claims.

\* A fresh cell: built Empty.
Fresh(c) == deposited[c] = None

\* C1: single transfer fidelity.  On a fresh one-shot channel the value v
\* passed to send is the value recv returns, exactly once: once the call of
\* send is over, v is in the slot, in the receiver's hands or returned, and
\* the slot is empty again when recv has returned.
C1_SingleTransferFidelity ==
  \A c \in Chans :
    /\ (Fresh(c) /\ spc[c] # "call") =>
          \/ slot[c] = sarg[c]
          \/ y[c] = sarg[c]
          \/ ret[c] = sarg[c]
    /\ rpc[c] = "returned" => slot[c] = None

C3_NoMissedWakeup ==
  \A c \in Chans : (Fresh(c) /\ spc[c] # "call") ~> (rpc[c] = "returned")

\* C4: no spinning.  A recv that has found the slot empty takes no further
\* step (it does not go for the mutex again) as long as no send has been
\* made on its channel.
C4_NoSpinning ==
  [][\A c \in Chans :
       (emptySeen[c] /\ rpc[c] = "lock" /\ spc[c] = "call") => rpc'[c] = "lock"]_vars

\* C5: independence from scheduler fairness.  With a scheduler that only
\* runs some enabled thread, a receiver that waits for a value cannot starve
\* the sender: the sender's call is eventually scheduled.
C5_ReceiverNeverStarvesSender ==
  \A c \in Chans : (emptySeen[c] /\ spc[c] = "call") ~> (spc[c] # "call")

\* C6: multi-shot ordering.  The consumer observes the items passed to
\* MultiSend.send, in order, none lost: what it has collected is a prefix of
\* what was sent, and all of it once producer and consumer are done.
C6_MultiShotOrdering ==
  /\ Len(collected) <= Len(parg)
  /\ \A i \in 1..Len(collected) : collected[i] = parg[i]
  /\ (ppc # "call" /\ cpc # "call") => collected = parg

\* C7: close terminates the stream.  Once the producer is done with the
\* stream, the consumer's receive loop ends by receiving None, the
\* end-of-stream marker, and in no other way.
C7_CloseTerminatesStream ==
  (ppc # "call" /\ cpc # "call") => cpc = "end"

\* C8: in the scenario where the producer sends 0..10 and stops, the
\* consumer's loop, once over, has collected exactly 0,1,...,9 in order.
C8_ConsumerCollectsAllAndStops ==
  cpc # "call" =>
    /\ Len(collected) = NumItems
    /\ \A i \in 1..NumItems : collected[i] = i - 1

\* C9: new_chan has no failure mode: the call made by test_SR completes.
C9_NewChanNeverFails ==
  srMain # Panicked

\* C10: slot invariant.  The call of send never fails fatally, the slot is
\* Empty whenever a send holds the mutex, and a value is never both in the
\* slot and taken out of it: it is removed once.
C10_SlotInvariant ==
  \A c \in Chans :
    /\ spc[c] # Panicked
    /\ mutex[c] = "send" => slot[c] = None
    /\ ~(slot[c] # None /\ (y[c] # None \/ ret[c] # None))

\* C11: if no send (or close) ever occurs, recv never returns and never
\* crashes.  On a fresh cell, where nothing is ever deposited, recv has not
\* returned; and the consumer of a multi-shot stream whose producer has
\* sent nothing has not crashed.
C11_RecvBlocksWithoutSend ==
  /\ \A c \in Chans : Fresh(c) => rpc[c] # "returned"
  /\ ppc = "call" => cpc # Panicked

C14_ChainStructure ==
  /\ mcMain \in {"start", "built"}
  /\ ppc \in {"call", "sent"}

\* C15: MultiSend.send never waits for the consumer: a send made while the
\* consumer has received nothing completes, and the consumer's later recv
\* still gets the item.
C15_SendNeverWaitsForConsumer ==
  /\ (cpc = "call" /\ ppc # "call") => ppc = "sent"
  /\ (ppc = "sent" /\ cpc # "call") => collected = parg

\* The lines thread j has printed.
Printed(j) == { k \in 1..Len(out) : out[k][2] = j }

\* C17: test_spawn waits for its threads: every thread whose join the main
\* thread has passed has finished all its iterations (it has printed a line
\* for each i of 1..10), and test_spawn returns only after all 10 joins.
C17_MainWaitsForThreads ==
  /\ \A j \in Threads :
       j < spJ => /\ thr[j] = "finished"
                  /\ { out[k][1] : k \in Printed(j) } = SpawnLo..(SpawnHi - 1)
                  /\ Cardinality(Printed(j)) = SpawnHi - SpawnLo
  /\ spMain = "done" => spJ = NumThreads

\* C17, reached: test_spawn has returned, all threads finished.
C17_Witness ==
  /\ spMain = "done"
  /\ \A j \in Threads : thr[j] = "finished"
  /\ Len(out) = NumThreads * (SpawnHi - SpawnLo)

\* C18: at most one child thread is alive at any time, a thread is spawned
\* only when all earlier ones have been joined, and the lines of different
\* threads are not interleaved (the output is ordered by thread).
C18_OneThreadAtATime ==
  /\ Cardinality({ j \in Threads : thr[j] \in {"println", "sleep"} }) <= 1
  /\ \A j \in Threads : thr[j] # "unborn" =>
        \A k \in Threads : k < j => (thr[k] = "finished" /\ k < spJ)
  /\ \A a, b \in 1..Len(out) : a < b => out[a][2] <= out[b][2]

\* C18, reached: a second thread is running after the first has finished,
\* and both have printed.
C18_Witness ==
  /\ thr[0] = "finished"
  /\ thr[1] \in {"println", "sleep"}
  /\ \E a, b \in 1..Len(out) : out[a][2] = 0 /\ out[b][2] = 1

\* No send and no receive of test_send_recv has failed.
PingNoFailure == mpc # Panicked /\ kpc # Panicked

\* Each hop appends exactly one element to the vec![1,2,3]: a vector in
\* flight is 3 long plus one element per send made so far.
PingOnePushPerHop ==
  /\ Len(q) + Len(q1) <= 1
  /\ \A k \in 1..Len(q) : Len(q[k]) = 3 + sends["main"] + sends["child"]
  /\ \A k \in 1..Len(q1) : Len(q1[k]) = 3 + sends["main"] + sends["child"]

\* What each thread has done when it is over.
PingFinalCounts ==
  /\ kpc = "done" => (sends["child"] = 7 /\ recvs["child"] = 6)
  /\ mpc = "done" =>
       (recvs["main"] = 7 /\ sends["main"] = 6 /\ Len(finalMsg) = 16)

\* C16: the ping-pong of test_send_recv is deadlock-free and terminates.
\* In every interleaving no send or receive fails, each hop appends one
\* element, and both threads come to their end: the child after 7 sends and
\* 6 receives, the main thread after 6 rounds of receive-then-send and a
\* final receive of a vector of 16 elements.
C16_PingPongTerminates ==
  /\ [](PingNoFailure /\ PingOnePushPerHop /\ PingFinalCounts)
  /\ <>(mpc = "done" /\ kpc = "done")

\* C16, reached: both threads are over and the main thread holds the
\* vector of 16 elements.
C16_Witness ==
  /\ mpc = "done"
  /\ kpc = "done"
  /\ Len(finalMsg) = 16
  /\ sends["child"] = 7

====
